---- MODULE Spec2Model ----
(***************************************************************************)
(* Library record-keeper: the tables livres, emprunteurs and emprunts, and *)
(* the service operations of app/services that read and write them.        *)
(***************************************************************************)
EXTENDS Integers, FiniteSets, Sequences, TLC

(* ------------------------------ bounds --------------------------------- *)
\* largest book id the model lets create_livre allocate
MaxLivres == 2
\* largest borrower id the model lets create_emprunteur allocate
MaxEmprunteurs == 2
\* largest loan id the model lets create_emprunt allocate
MaxEmprunts == 2
\* number of books of init_db's list nouveaux_livres the model keeps
MaxLivresTest == 1

(* -------------------------- program constants -------------------------- *)
MinAnnee == 1000
MaxAnnee == 2024

\* default of the query parameter limit of the three listings
LimiteParDefaut == 100

HTTP_200 == 200
HTTP_201 == 201
HTTP_204 == 204
HTTP_400 == 400
HTTP_404 == 404
HTTP_422 == 422
HTTP_500 == 500

LivreIds == 1..MaxLivres
EmprunteurIds == 1..MaxEmprunteurs
Emails == {"jean.dupont@email.com", "marie.martin@email.com"}
\* years a request may carry: both ends of the valid range and one beyond each
AnneesDemandees == {MinAnnee - 1, MinAnnee, MaxAnnee, MaxAnnee + 1}
\* an Optional field of a request body: not sent, sent as null, or sent with a value
Unset == <<>>
Null == <<{}>>
Some(v) == <<{v}>>
Val(x) == CHOOSE v \in x[1] : TRUE

VARIABLES
    livres,        \* table livres: id -> [annee_publication, disponible]
    emprunteurs,   \* table emprunteurs: id -> [email]
    emprunts,      \* table emprunts: id -> [livre_id, emprunteur_id]
    en_cours,      \* per book id: successful borrows since its last successful return
    sess,          \* requests in flight, one per worker
    resp           \* the last response sent

vars == <<livres, emprunteurs, emprunts, en_cours, sess, resp>>

(* ------------------------------ helpers -------------------------------- *)
SetMax(S) == CHOOSE x \in S : \A y \in S : y <= x

\* INTEGER PRIMARY KEY without AUTOINCREMENT: the largest id in use plus one
NextId(ids) == IF ids = {} THEN 1 ELSE SetMax(ids) + 1

Without(f, k) == [x \in DOMAIN f \ {k} |-> f[x]]
With(f, k, v) == [x \in DOMAIN f \cup {k} |-> IF x = k THEN v ELSE f[x]]

\* no request is being handled
NoResponse == [op |-> "none", status |-> 0, livre_id |-> 0, emprunteur_id |-> 0,
               emprunt_id |-> 0]

Response(op, status, b, e, p) ==
    [op |-> op, status |-> status, livre_id |-> b, emprunteur_id |-> e,
     emprunt_id |-> p]

\* the three tables as one value
Store == [livres |-> livres, emprunteurs |-> emprunteurs, emprunts |-> emprunts]

(* ------------------------------ queries -------------------------------- *)
get_livre_by_id(L, livre_id) == livre_id \in DOMAIN L

get_emprunteur_by_id(E, emprunteur_id) == emprunteur_id \in DOMAIN E

get_emprunteur_by_email(E, email) == \E i \in DOMAIN E : E[i].email = email

EmpruntsDuLivre(P, livre_id) == {i \in DOMAIN P : P[i].livre_id = livre_id}

EmpruntsDeEmprunteur(P, emprunteur_id) ==
    {i \in DOMAIN P : P[i].emprunteur_id = emprunteur_id}

(* -------------------------- request validation ------------------------- *)
\* mutation of AnneeValide: le=2024 is left out
AnneeValide_sans_maximum(a) == a >= MinAnnee

AnneeValide(a) == a >= MinAnnee /\ a <= MaxAnnee

EmpruntBaseValide(livre_id, emprunteur_id) == livre_id > 0 /\ emprunteur_id > 0

LivreUpdateValide(data) ==
    data.annee_publication \in {Unset, Null} \/ AnneeValide(Val(data.annee_publication))

(* --------------------------- the transaction --------------------------- *)
\* mutation of Commit: the except branch does not roll back, the INSERT of the
\* failed request stays
Commit_sans_rollback(ok, before, after) ==
    IF ok THEN after ELSE [before EXCEPT !.emprunts = after.emprunts]

\* mutation of Commit: the except branch does not roll back, the staged
\* changes of table livres stay
Commit_sans_rollback_livres(ok, before, after) ==
    IF ok THEN after ELSE [before EXCEPT !.livres = after.livres]

\* db.commit(): all staged changes or, on failure followed by db.rollback(), none
Commit(ok, before, after) == IF ok THEN after ELSE before

Install(s) ==
    /\ livres' = s.livres
    /\ emprunteurs' = s.emprunteurs
    /\ emprunts' = s.emprunts

(* ------------------------ livre_service.py ----------------------------- *)
\* Livre(..., disponible=True); db.add
create_livre_stage(s, annee) ==
    [s EXCEPT !.livres = With(@, NextId(DOMAIN @),
                              [annee_publication |-> annee, disponible |-> TRUE])]

create_livre(annee, ok) ==
    LET id == NextId(DOMAIN livres) IN
    /\ resp = NoResponse
    /\ UNCHANGED <<en_cours, sess>>
    /\ IF ~AnneeValide(annee)
       THEN /\ resp' = Response("create_livre", HTTP_422, 0, 0, 0)
            /\ UNCHANGED <<livres, emprunteurs, emprunts>>
       ELSE /\ id <= MaxLivres
            /\ Install(Commit(ok, Store, create_livre_stage(Store, annee)))
            /\ resp' = Response("create_livre", IF ok THEN HTTP_201 ELSE HTTP_500,
                                IF ok THEN id ELSE 0, 0, 0)

\* livre_data.dict(exclude_unset=True)
update_data(data) == {f \in DOMAIN data : data[f] # Unset}

\* for field, value in update_data.items(): setattr(db_livre, field, value)
update_livre_stage(s, livre_id, data) ==
    [s EXCEPT !.livres[livre_id] =
        [f \in DOMAIN @ |-> IF f \in update_data(data) THEN Val(data[f]) ELSE @[f]]]

update_livre_status(L, livre_id, data) ==
    IF ~get_livre_by_id(L, livre_id) THEN HTTP_404
    ELSE IF \E f \in update_data(data) : data[f] = Null THEN HTTP_400
    ELSE HTTP_200

update_livre(livre_id, data, ok) ==
    LET st == update_livre_status(livres, livre_id, data) IN
    /\ resp = NoResponse
    /\ UNCHANGED <<en_cours, sess>>
    /\ IF ~LivreUpdateValide(data)
       THEN /\ resp' = Response("update_livre", HTTP_422, livre_id, 0, 0)
            /\ UNCHANGED <<livres, emprunteurs, emprunts>>
       ELSE IF st # HTTP_200
       THEN /\ resp' = Response("update_livre", st, livre_id, 0, 0)
            /\ UNCHANGED <<livres, emprunteurs, emprunts>>
       ELSE /\ Install(Commit(ok, Store, update_livre_stage(Store, livre_id, data)))
            /\ resp' = Response("update_livre", IF ok THEN HTTP_200 ELSE HTTP_500,
                                livre_id, 0, 0)

\* db.delete(db_livre): relationship emprunts has cascade="all, delete-orphan",
\* the unit of work deletes the book's loans and then the book
delete_livre_stage(s, livre_id) ==
    [s EXCEPT !.emprunts = [i \in DOMAIN @ \ EmpruntsDuLivre(@, livre_id) |-> @[i]],
              !.livres = Without(@, livre_id)]

\* mutation of delete_livre_status: the "if not db_livre" check is left out
delete_livre_status_sans_404(L, livre_id) == HTTP_204

delete_livre_status(L, livre_id) ==
    IF ~get_livre_by_id(L, livre_id) THEN HTTP_404 ELSE HTTP_204

delete_livre(livre_id, ok) ==
    LET st == delete_livre_status(livres, livre_id) IN
    /\ resp = NoResponse
    /\ UNCHANGED sess
    /\ IF st # HTTP_204
       THEN /\ resp' = Response("delete_livre", st, livre_id, 0, 0)
            /\ UNCHANGED <<livres, emprunteurs, emprunts, en_cours>>
       ELSE /\ Install(Commit(ok, Store, delete_livre_stage(Store, livre_id)))
            /\ en_cours' = IF ok THEN [en_cours EXCEPT ![livre_id] = 0] ELSE en_cours
            /\ resp' = Response("delete_livre", IF ok THEN HTTP_204 ELSE HTTP_500,
                                livre_id, 0, 0)

(* ---------------------- emprunteur_service.py -------------------------- *)
create_emprunteur_stage(s, email) ==
    [s EXCEPT !.emprunteurs = With(@, NextId(DOMAIN @), [email |-> email])]

create_emprunteur_status(E, email) ==
    IF get_emprunteur_by_email(E, email) THEN HTTP_400 ELSE HTTP_201

create_emprunteur(email, ok) ==
    LET st == create_emprunteur_status(emprunteurs, email)
        id == NextId(DOMAIN emprunteurs) IN
    /\ resp = NoResponse
    /\ UNCHANGED <<en_cours, sess>>
    /\ IF st # HTTP_201
       THEN /\ resp' = Response("create_emprunteur", st, 0, 0, 0)
            /\ UNCHANGED <<livres, emprunteurs, emprunts>>
       ELSE /\ id <= MaxEmprunteurs
            /\ Install(Commit(ok, Store, create_emprunteur_stage(Store, email)))
            /\ resp' = Response("create_emprunteur",
                                IF ok THEN HTTP_201 ELSE HTTP_500,
                                0, IF ok THEN id ELSE 0, 0)

\* mutation of emprunts_actifs: only the loans of books still out are counted
emprunts_actifs_non_rendus(P, emprunteur_id) ==
    Cardinality({i \in EmpruntsDeEmprunteur(P, emprunteur_id) :
                    ~livres[P[i].livre_id].disponible})

\* emprunts_actifs = db.query(Emprunt).filter(emprunteur_id == ...).count()
emprunts_actifs(P, emprunteur_id) == Cardinality(EmpruntsDeEmprunteur(P, emprunteur_id))

delete_emprunteur_stage(s, emprunteur_id) ==
    [s EXCEPT !.emprunts = [i \in DOMAIN @ \ EmpruntsDeEmprunteur(@, emprunteur_id) |-> @[i]],
              !.emprunteurs = Without(@, emprunteur_id)]

delete_emprunteur_status(E, P, emprunteur_id) ==
    IF ~get_emprunteur_by_id(E, emprunteur_id) THEN HTTP_404
    ELSE IF emprunts_actifs(P, emprunteur_id) > 0 THEN HTTP_400
    ELSE HTTP_200

delete_emprunteur(emprunteur_id, ok) ==
    LET st == delete_emprunteur_status(emprunteurs, emprunts, emprunteur_id) IN
    /\ resp = NoResponse
    /\ UNCHANGED <<en_cours, sess>>
    /\ IF st # HTTP_200
       THEN /\ resp' = Response("delete_emprunteur", st, 0, emprunteur_id, 0)
            /\ UNCHANGED <<livres, emprunteurs, emprunts>>
       ELSE /\ Install(Commit(ok, Store, delete_emprunteur_stage(Store, emprunteur_id)))
            /\ resp' = Response("delete_emprunteur",
                                IF ok THEN HTTP_200 ELSE HTTP_500,
                                0, emprunteur_id, 0)

(* ------------------------ emprunt_service.py --------------------------- *)
\* mutation of create_emprunt_stage: livre.disponible = False is left out
create_emprunt_stage_sans_drapeau(s, livre_id, emprunteur_id) ==
    [s EXCEPT !.emprunts = With(@, NextId(DOMAIN @),
                                [livre_id |-> livre_id,
                                 emprunteur_id |-> emprunteur_id])]

\* mutation of create_emprunt_stage: the flag of every book is set to False
create_emprunt_stage_tous_les_livres(s, livre_id, emprunteur_id) ==
    [s EXCEPT !.emprunts = With(@, NextId(DOMAIN @),
                                [livre_id |-> livre_id,
                                 emprunteur_id |-> emprunteur_id]),
              !.livres = [i \in DOMAIN @ |-> [@[i] EXCEPT !.disponible = FALSE]]]

\* db.add(Emprunt(livre_id, emprunteur_id)); livre.disponible = False
create_emprunt_stage(s, livre_id, emprunteur_id) ==
    [s EXCEPT !.emprunts = With(@, NextId(DOMAIN @),
                                [livre_id |-> livre_id,
                                 emprunteur_id |-> emprunteur_id]),
              !.livres[livre_id].disponible = FALSE]

\* mutation of create_emprunt_status: the borrower lookup is left out
create_emprunt_status_sans_emprunteur(L, E, livre_id, emprunteur_id) ==
    IF ~get_livre_by_id(L, livre_id) THEN HTTP_404
    ELSE IF ~L[livre_id].disponible THEN HTTP_400
    ELSE HTTP_201

\* mutation of create_emprunt_status: a book with a loan record is refused,
\* whatever its flag
create_emprunt_status_par_historique(L, E, livre_id, emprunteur_id) ==
    IF ~get_livre_by_id(L, livre_id) THEN HTTP_404
    ELSE IF ~get_emprunteur_by_id(E, emprunteur_id) THEN HTTP_404
    ELSE IF EmpruntsDuLivre(emprunts, livre_id) # {} THEN HTTP_400
    ELSE HTTP_201

\* mutation of create_emprunt_status: the flag is checked before the borrower
create_emprunt_status_drapeau_avant(L, E, livre_id, emprunteur_id) ==
    IF ~get_livre_by_id(L, livre_id) THEN HTTP_404
    ELSE IF ~L[livre_id].disponible THEN HTTP_400
    ELSE IF ~get_emprunteur_by_id(E, emprunteur_id) THEN HTTP_404
    ELSE HTTP_201

create_emprunt_status(L, E, livre_id, emprunteur_id) ==
    IF ~get_livre_by_id(L, livre_id) THEN HTTP_404
    ELSE IF ~get_emprunteur_by_id(E, emprunteur_id) THEN HTTP_404
    ELSE IF ~L[livre_id].disponible THEN HTTP_400
    ELSE HTTP_201

\* a successful create_emprunt adds an outstanding loan of the book
RecordBorrow(h, livre_id) == [h EXCEPT ![livre_id] = @ + 1]

\* a successful retourner_livre gives the book back: no loan of it is outstanding
RecordReturn(h, livre_id) == [h EXCEPT ![livre_id] = 0]

create_emprunt(livre_id, emprunteur_id, ok) ==
    LET st == create_emprunt_status(livres, emprunteurs, livre_id, emprunteur_id)
        id == NextId(DOMAIN emprunts) IN
    /\ resp = NoResponse
    /\ UNCHANGED sess
    /\ IF ~EmpruntBaseValide(livre_id, emprunteur_id)
       THEN /\ resp' = Response("create_emprunt", HTTP_422, livre_id, emprunteur_id, 0)
            /\ UNCHANGED <<livres, emprunteurs, emprunts, en_cours>>
       ELSE IF st # HTTP_201
       THEN /\ resp' = Response("create_emprunt", st, livre_id, emprunteur_id, 0)
            /\ UNCHANGED <<livres, emprunteurs, emprunts, en_cours>>
       ELSE /\ id <= MaxEmprunts
            /\ Install(Commit(ok, Store,
                              create_emprunt_stage(Store, livre_id, emprunteur_id)))
            /\ en_cours' = IF ok THEN RecordBorrow(en_cours, livre_id) ELSE en_cours
            /\ resp' = Response("create_emprunt", IF ok THEN HTTP_201 ELSE HTTP_500,
                                livre_id, emprunteur_id, IF ok THEN id ELSE 0)

\* mutation of retourner_livre_stage: the return also deletes the book's loans
retourner_livre_stage_supprime_emprunts(s, livre_id) ==
    [s EXCEPT !.livres[livre_id].disponible = TRUE,
              !.emprunts = [i \in DOMAIN @ \ EmpruntsDuLivre(@, livre_id) |-> @[i]]]

\* mutation of retourner_livre_status: the "already available" check is left out
retourner_livre_status_sans_verification(L, livre_id) ==
    IF ~get_livre_by_id(L, livre_id) THEN HTTP_404 ELSE HTTP_200

\* mutation of retourner_livre_stage: livre.disponible = True is left out
retourner_livre_stage_sans_drapeau(s, livre_id) == s

\* livre.disponible = True
retourner_livre_stage(s, livre_id) ==
    [s EXCEPT !.livres[livre_id].disponible = TRUE]

\* mutation of retourner_livre_status: a book without loan record cannot be
\* given back
retourner_livre_status_exige_emprunt(L, livre_id) ==
    IF ~get_livre_by_id(L, livre_id) THEN HTTP_404
    ELSE IF L[livre_id].disponible THEN HTTP_400
    ELSE IF EmpruntsDuLivre(emprunts, livre_id) = {} THEN HTTP_400
    ELSE HTTP_200

retourner_livre_status(L, livre_id) ==
    IF ~get_livre_by_id(L, livre_id) THEN HTTP_404
    ELSE IF L[livre_id].disponible THEN HTTP_400
    ELSE HTTP_200

retourner_livre(livre_id, ok) ==
    LET st == retourner_livre_status(livres, livre_id) IN
    /\ resp = NoResponse
    /\ UNCHANGED sess
    /\ IF st # HTTP_200
       THEN /\ resp' = Response("retourner_livre", st, livre_id, 0, 0)
            /\ UNCHANGED <<livres, emprunteurs, emprunts, en_cours>>
       ELSE /\ Install(Commit(ok, Store, retourner_livre_stage(Store, livre_id)))
            /\ en_cours' = IF ok THEN RecordReturn(en_cours, livre_id) ELSE en_cours
            /\ resp' = Response("retourner_livre", IF ok THEN HTTP_200 ELSE HTTP_500,
                                livre_id, 0, 0)

(* ------------- create_emprunt, one database access at a time ----------- *)
\* Each request has its own Session (get_db). The SELECTs run outside any
\* transaction (pysqlite opens one only at the first INSERT/UPDATE/DELETE), so
\* another worker's commit can land between a request's reads and its commit.
Workers == {1, 2}

Idle == [pc |-> "idle", livre_id |-> 0, emprunteur_id |-> 0, livre |-> <<>>,
         status |-> 0]

Done(w, status) == [sess[w] EXCEPT !.pc = "done", !.status = status]

\* livre = LivreService.get_livre_by_id(db, emprunt_data.livre_id)
emprunt_lire_livre(w, livre_id, emprunteur_id) ==
    /\ sess[w].pc = "idle"
    /\ NextId(DOMAIN emprunts) <= MaxEmprunts
    /\ sess' = [sess EXCEPT ![w] =
           IF get_livre_by_id(livres, livre_id)
           THEN [pc |-> "livre", livre_id |-> livre_id,
                 emprunteur_id |-> emprunteur_id,
                 livre |-> <<livres[livre_id]>>, status |-> 0]
           ELSE [pc |-> "done", livre_id |-> livre_id,
                 emprunteur_id |-> emprunteur_id,
                 livre |-> <<>>, status |-> HTTP_404]]
    /\ UNCHANGED <<livres, emprunteurs, emprunts, en_cours, resp>>

\* the borrower is read from the store; livre.disponible is the attribute of
\* the object loaded by the first query
emprunt_verifier(w) ==
    LET b == sess[w].livre_id
        st == create_emprunt_status(b :> sess[w].livre[1], emprunteurs,
                                    b, sess[w].emprunteur_id) IN
    /\ sess[w].pc = "livre"
    /\ sess' = [sess EXCEPT ![w] =
           IF st = HTTP_201 THEN [@ EXCEPT !.pc = "commit"] ELSE Done(w, st)]
    /\ UNCHANGED <<livres, emprunteurs, emprunts, en_cours, resp>>

\* db.commit(): INSERT INTO emprunts, UPDATE livres SET disponible=0 WHERE id=?;
\* an UPDATE that matches no row raises StaleDataError (except Exception: 500)
emprunt_commit(w) ==
    LET b == sess[w].livre_id IN
    /\ sess[w].pc = "commit"
    /\ UNCHANGED resp
    /\ IF ~get_livre_by_id(livres, b)
       THEN /\ sess' = [sess EXCEPT ![w] = Done(w, HTTP_500)]
            /\ UNCHANGED <<livres, emprunteurs, emprunts, en_cours>>
       ELSE /\ NextId(DOMAIN emprunts) <= MaxEmprunts
            /\ Install(create_emprunt_stage(Store, b, sess[w].emprunteur_id))
            /\ en_cours' = RecordBorrow(en_cours, b)
            /\ sess' = [sess EXCEPT ![w] = Done(w, HTTP_201)]

\* the response has been sent and the session is closed
emprunt_close(w) ==
    /\ sess[w].pc = "done"
    /\ sess' = [sess EXCEPT ![w] = Idle]
    /\ UNCHANGED <<livres, emprunteurs, emprunts, en_cours, resp>>

(* ----------- create_emprunteur, one database access at a time ---------- *)
\* existing_emprunteur = get_emprunteur_by_email(db, emprunteur_data.email)
emprunteur_lire_email(w, email) ==
    /\ sess[w].pc = "idle"
    /\ sess' = [sess EXCEPT ![w] =
           [pc |-> IF get_emprunteur_by_email(emprunteurs, email)
                   THEN "done" ELSE "insert",
            email |-> email,
            status |-> create_emprunteur_status(emprunteurs, email)]]
    /\ UNCHANGED <<livres, emprunteurs, emprunts, en_cours, resp>>

\* mutation of emprunteur_commit_status: the column email is not unique
emprunteur_commit_status_sans_unique(E, email) == HTTP_201

\* db.commit(): INSERT INTO emprunteurs; the UNIQUE index on email rejects a
\* second row with the same email (IntegrityError: rollback, 400)
emprunteur_commit_status(E, email) ==
    IF get_emprunteur_by_email(E, email) THEN HTTP_400 ELSE HTTP_201

emprunteur_commit(w) ==
    LET st == emprunteur_commit_status(emprunteurs, sess[w].email) IN
    /\ sess[w].pc = "insert"
    /\ UNCHANGED <<livres, emprunts, en_cours, resp>>
    /\ sess' = [sess EXCEPT ![w] = Done(w, st)]
    /\ IF st # HTTP_201
       THEN UNCHANGED emprunteurs
       ELSE /\ NextId(DOMAIN emprunteurs) <= MaxEmprunteurs
            /\ emprunteurs' = create_emprunteur_stage(Store, sess[w].email).emprunteurs

(* ----------- delete_emprunteur, one database access at a time ---------- *)
\* emprunteur = db.query(Emprunteur).filter(Emprunteur.id == emprunteur_id).first()
emprunteur_suppr_lire(w, emprunteur_id) ==
    /\ sess[w].pc = "idle"
    /\ sess' = [sess EXCEPT ![w] =
           [pc |-> IF get_emprunteur_by_id(emprunteurs, emprunteur_id)
                   THEN "compter" ELSE "done",
            emprunteur_id |-> emprunteur_id,
            cascade |-> {},
            status |-> IF get_emprunteur_by_id(emprunteurs, emprunteur_id)
                       THEN 0 ELSE HTTP_404]]
    /\ UNCHANGED <<livres, emprunteurs, emprunts, en_cours, resp>>

\* emprunts_actifs = db.query(Emprunt).filter(...).count(); if emprunts_actifs > 0
emprunteur_suppr_compter(w) ==
    /\ sess[w].pc = "compter"
    /\ sess' = [sess EXCEPT ![w] =
           IF emprunts_actifs(emprunts, sess[w].emprunteur_id) > 0
           THEN Done(w, HTTP_400) ELSE [@ EXCEPT !.pc = "cascade"]]
    /\ UNCHANGED <<livres, emprunteurs, emprunts, en_cours, resp>>

\* db.delete(emprunteur): the delete cascade of Emprunteur.emprunts loads the
\* borrower's loans to mark them deleted with the borrower
emprunteur_suppr_cascade(w) ==
    /\ sess[w].pc = "cascade"
    /\ sess' = [sess EXCEPT ![w] =
           [@ EXCEPT !.pc = "supprimer",
                     !.cascade = EmpruntsDeEmprunteur(emprunts, sess[w].emprunteur_id)]]
    /\ UNCHANGED <<livres, emprunteurs, emprunts, en_cours, resp>>

\* db.commit(): DELETE FROM emprunts for the loans loaded, DELETE FROM
\* emprunteurs WHERE id=?; a DELETE that matches no row raises StaleDataError,
\* which nothing catches (500, the session is closed without commit)
emprunteur_suppr_commit(w) ==
    LET e == sess[w].emprunteur_id IN
    /\ sess[w].pc = "supprimer"
    /\ UNCHANGED <<livres, en_cours, resp>>
    /\ IF ~get_emprunteur_by_id(emprunteurs, e)
       THEN /\ sess' = [sess EXCEPT ![w] = Done(w, HTTP_500)]
            /\ UNCHANGED <<emprunteurs, emprunts>>
       ELSE /\ emprunts' = [i \in DOMAIN emprunts \ sess[w].cascade |-> emprunts[i]]
            /\ emprunteurs' = Without(emprunteurs, e)
            /\ sess' = [sess EXCEPT ![w] = Done(w, HTTP_200)]

(* ------------------------------ listings ------------------------------- *)
\* the rows of ids whose rowid lies in lo..hi, in rowid order
RECURSIVE TrieeEntre(_, _, _)
TrieeEntre(ids, lo, hi) ==
    IF lo > hi THEN <<>>
    ELSE IF lo = hi THEN (IF lo \in ids THEN <<lo>> ELSE <<>>)
    ELSE LET milieu == (lo + hi) \div 2
         IN TrieeEntre(ids, lo, milieu) \o TrieeEntre(ids, milieu + 1, hi)

\* the rows ids in rowid order
Triee(ids) ==
    IF ids = {} THEN <<>> ELSE TrieeEntre(ids, 1, SetMax(ids))

\* db.query(X).offset(skip).limit(limit).all(): SELECT ... LIMIT ? OFFSET ?.
\* SQLite reads a negative OFFSET as 0 and a negative LIMIT as no limit.
Lister(ids, skip, limit) ==
    LET rows == Triee(ids)
        debut == IF skip < 0 THEN 0 ELSE skip
        fin == IF limit < 0 \/ debut + limit > Len(rows) THEN Len(rows)
               ELSE debut + limit
    IN SubSeq(rows, debut + 1, fin)

Liste(op, status, skip, limit, items) ==
    [op |-> op, status |-> status, skip |-> skip, limit |-> limit, items |-> items]

\* GET /livres/?skip=&limit=
get_livres(skip, limit) ==
    /\ resp = NoResponse
    /\ resp' = Liste("get_livres", HTTP_200, skip, limit,
                     Lister(DOMAIN livres, skip, limit))
    /\ UNCHANGED <<livres, emprunteurs, emprunts, en_cours, sess>>

\* GET /emprunteurs/?skip=&limit=
get_emprunteurs(skip, limit) ==
    /\ resp = NoResponse
    /\ resp' = Liste("get_emprunteurs", HTTP_200, skip, limit,
                     Lister(DOMAIN emprunteurs, skip, limit))
    /\ UNCHANGED <<livres, emprunteurs, emprunts, en_cours, sess>>

\* GET /emprunts/?skip=&limit=: get_emprunts_with_details reads emprunt.livre.id
\* and emprunt.emprunteur.id of every listed loan; a loan whose book or
\* borrower row is gone has None there (AttributeError, 500)
get_emprunts(skip, limit) ==
    LET items == Lister(DOMAIN emprunts, skip, limit)
        complet == \A k \in DOMAIN items :
                      /\ emprunts[items[k]].livre_id \in DOMAIN livres
                      /\ emprunts[items[k]].emprunteur_id \in DOMAIN emprunteurs
    IN
    /\ resp = NoResponse
    /\ resp' = IF complet THEN Liste("get_emprunts", HTTP_200, skip, limit, items)
                          ELSE Liste("get_emprunts", HTTP_500, skip, limit, <<>>)
    /\ UNCHANGED <<livres, emprunteurs, emprunts, en_cours, sess>>

(* ------------------------------ init_db.py ----------------------------- *)
\* annee_publication of the first book of nouveaux_livres
AnneeTest == 1862

\* emprunteurs_test, cut to its first two entries
EmprunteursTest == <<"jean.dupont@email.com", "marie.martin@email.com">>

\* mutation of init_db_supprimer_livres: the existing books are kept
init_db_sans_suppression(s) == s

\* db.query(Livre).delete(); db.commit(): one DELETE FROM livres. A bulk
\* delete does not run the relationship cascade, and the connection never
\* issues PRAGMA foreign_keys=ON, so the rows of emprunts stay.
init_db_supprimer_livres(s) ==
    IF DOMAIN s.livres # {} THEN [s EXCEPT !.livres = <<>>] ELSE s

\* if existing_emprunteurs == 0: db.add of every test borrower
init_db_ajouter_emprunteurs(s) ==
    IF DOMAIN s.emprunteurs = {}
    THEN [s EXCEPT !.emprunteurs =
             [i \in 1..Len(EmprunteursTest) |-> [email |-> EmprunteursTest[i]]]]
    ELSE s

\* db.add of every new book, disponible=True; the ids follow the largest id
\* left in the table
init_db_ajouter_livres(s) ==
    LET premier == NextId(DOMAIN s.livres) IN
    [s EXCEPT !.livres =
        [i \in DOMAIN @ \cup (premier..(premier + MaxLivresTest - 1)) |->
            IF i \in DOMAIN @ THEN @[i]
            ELSE [annee_publication |-> AnneeTest, disponible |-> TRUE]]]

\* the three writes of init_db in their order
init_db_stage(s) ==
    init_db_ajouter_livres(init_db_ajouter_emprunteurs(init_db_supprimer_livres(s)))

\* python init_db.py, run while no request is being handled
init_db ==
    /\ resp = NoResponse
    /\ Install(init_db_stage(Store))
    /\ en_cours' = [b \in LivreIds |-> 0]
    /\ UNCHANGED <<sess, resp>>

(* ---------------------------- specification ---------------------------- *)

\* create_tables() on an empty database file
Init ==
    /\ livres = <<>>
    /\ emprunteurs = <<>>
    /\ emprunts = <<>>
    /\ en_cours = [b \in LivreIds |-> 0]
    /\ sess = [w \in Workers |-> Idle]
    /\ resp = NoResponse

LivreUpdates(annees) ==
    [annee_publication : {Unset} \cup {Some(a) : a \in annees},
     disponible : {Unset, Null, Some(TRUE), Some(FALSE)}]

\* the API served by one event loop: every handler runs to completion, and
\* the next request is taken once the response is out (resp = NoResponse)
\* get_db's finally: the response has been sent and the session is closed
close ==
    /\ resp # NoResponse
    /\ resp' = NoResponse
    /\ UNCHANGED <<livres, emprunteurs, emprunts, en_cours, sess>>

Requests(oks, annees) ==
    \E ok \in oks :
        \/ \E a \in annees : create_livre(a, ok)
        \/ \E b \in LivreIds, d \in LivreUpdates(annees) : update_livre(b, d, ok)
        \/ \E b \in LivreIds : delete_livre(b, ok)
        \/ \E m \in Emails : create_emprunteur(m, ok)
        \/ \E e \in EmprunteurIds : delete_emprunteur(e, ok)
        \/ \E b \in 0..MaxLivres, e \in 0..MaxEmprunteurs : create_emprunt(b, e, ok)
        \/ \E b \in LivreIds : retourner_livre(b, ok)

Next == Requests({TRUE}, {MaxAnnee, MaxAnnee + 1}) \/ close

Spec == Init /\ [][Next]_vars

\* the same API over a store whose commit may fail
NextFault == Requests(BOOLEAN, {MaxAnnee}) \/ close

SpecFault == Init /\ [][NextFault]_vars

\* several workers over the same database file: borrow requests interleave at
\* their database accesses; the other requests are taken whole
NextConc ==
    \/ create_livre(MaxAnnee, TRUE)
    \/ \E m \in Emails : create_emprunteur(m, TRUE)
    \/ \E b \in LivreIds : retourner_livre(b, TRUE)
    \/ close
    \/ \E w \in Workers :
          \/ \E b \in LivreIds, e \in EmprunteurIds : emprunt_lire_livre(w, b, e)
          \/ emprunt_verifier(w)
          \/ emprunt_commit(w)
          \/ emprunt_close(w)

SpecConc == Init /\ [][NextConc]_vars

\* several workers over the same database file: create-borrower requests
\* interleave at their database accesses
NextConcEmail ==
    \/ \E e \in EmprunteurIds : delete_emprunteur(e, TRUE)
    \/ close
    \/ \E w \in Workers :
          \/ \E m \in Emails : emprunteur_lire_email(w, m)
          \/ emprunteur_commit(w)
          \/ emprunt_close(w)

SpecConcEmail == Init /\ [][NextConcEmail]_vars

\* several workers over the same database file: borrow requests and
\* delete-borrower requests interleave at their database accesses
NextConcSuppr ==
    \/ create_livre(MaxAnnee, TRUE)
    \/ \E m \in Emails : create_emprunteur(m, TRUE)
    \/ close
    \/ \E w \in Workers :
          \/ \E b \in LivreIds, e \in EmprunteurIds : emprunt_lire_livre(w, b, e)
          \/ emprunt_verifier(w)
          \/ emprunt_commit(w)
          \/ \E e \in EmprunteurIds : emprunteur_suppr_lire(w, e)
          \/ emprunteur_suppr_compter(w)
          \/ emprunteur_suppr_cascade(w)
          \/ emprunteur_suppr_commit(w)
          \/ emprunt_close(w)

SpecConcSuppr == Init /\ [][NextConcSuppr]_vars

\* the API used by one borrower, every response sent and every return request
\* that keeps being made handled: the server takes each request it is sent
NextRetour ==
    \/ create_livre(MaxAnnee, TRUE)
    \/ create_emprunteur(EmprunteursTest[1], TRUE)
    \/ \E b \in LivreIds, d \in LivreUpdates({}) : update_livre(b, d, TRUE)
    \/ \E b \in LivreIds : delete_livre(b, TRUE)
    \/ \E b \in LivreIds : create_emprunt(b, 1, TRUE)
    \/ \E b \in LivreIds : retourner_livre(b, TRUE)
    \/ close

SpecRetour ==
    /\ Init
    /\ [][NextRetour]_vars
    /\ WF_vars(close)
    /\ \A b \in LivreIds : SF_vars(retourner_livre(b, TRUE))

\* update bodies that carry a year, null, or no year
LivreUpdatesAnnee ==
    [annee_publication : {Unset, Null} \cup {Some(a) : a \in AnneesDemandees},
     disponible : {Unset}]

\* the API with request values on both sides of the schema's limits
NextAnnees ==
    \/ \E a \in AnneesDemandees : create_livre(a, TRUE)
    \/ \E b \in LivreIds, d \in LivreUpdatesAnnee : update_livre(b, d, TRUE)
    \/ create_emprunteur(EmprunteursTest[1], TRUE)
    \/ \E b \in (-1)..MaxLivres, e \in (-1)..MaxEmprunteurs : create_emprunt(b, e, TRUE)
    \/ \E b \in LivreIds : retourner_livre(b, TRUE)
    \/ close

SpecAnnees == Init /\ [][NextAnnees]_vars

\* books and borrowers created, borrowers deleted, books borrowed, and runs of
\* the initialisation script in between
NextSeed ==
    \/ create_livre(MaxAnnee, TRUE)
    \/ \E m \in Emails : create_emprunteur(m, TRUE)
    \/ \E e \in EmprunteurIds : delete_emprunteur(e, TRUE)
    \/ \E b \in LivreIds : create_emprunt(b, 1, TRUE)
    \/ close
    \/ init_db

SpecSeed == Init /\ [][NextSeed]_vars

\* table sizes on both sides of the default page size
Tailles == {0, 1, LimiteParDefaut, LimiteParDefaut + 1}

\* a store after nl create_livre, ne create_emprunteur and np borrow/return
\* rounds of book 1 by borrower 1
InitListe ==
    \E nl \in Tailles, ne \in 0..Cardinality(Emails), np \in Tailles :
        /\ np > 0 => nl > 0 /\ ne > 0
        /\ livres = [i \in 1..nl |-> [annee_publication |-> MaxAnnee,
                                       disponible |-> TRUE]]
        /\ emprunteurs = [i \in 1..ne |-> [email |-> EmprunteursTest[i]]]
        /\ emprunts = [i \in 1..np |-> [livre_id |-> 1, emprunteur_id |-> 1]]
        /\ en_cours = [b \in LivreIds |-> 0]
        /\ sess = [w \in Workers |-> Idle]
        /\ resp = NoResponse

\* the listings, for offsets and limits on both sides of the default
NextListe ==
    \/ \E skip \in {0, 1},
          limit \in {-1, 0, LimiteParDefaut, LimiteParDefaut + 1} :
            \/ get_livres(skip, limit)
            \/ get_emprunteurs(skip, limit)
            \/ get_emprunts(skip, limit)
    \/ close

SpecListe == InitListe /\ [][NextListe]_vars

\* the API and runs of the initialisation script on the same database file
NextInit == Requests({TRUE}, {MaxAnnee}) \/ close \/ init_db

SpecInit == Init /\ [][NextInit]_vars

(* ------------------------------ properties ----------------------------- *)
\* the step is the handling of one request `op` naming book b and borrower e
Handled(op, b, e) ==
    /\ resp = NoResponse
    /\ resp'.op = op
    /\ resp'.livre_id = b
    /\ resp'.emprunteur_id = e

\* C1: in every reachable state a book's flag is false if and only if the book
\* has a loan that no return has reversed (a successful borrow since its last
\* successful return). While this holds the number of outstanding loans is 0 or
\* 1 and equals successful borrows minus successful returns, so the first
\* state that breaks either reading breaks both.
C1_DisponibleSsiAucunEmpruntEnCours ==
    \A b \in DOMAIN livres : ~livres[b].disponible <=> en_cours[b] > 0

\* C2: with borrow requests of several workers interleaved, no book ever has
\* more than one loan created since its last return.
C2_AuPlusUnEmpruntEnCours == \A b \in LivreIds : en_cours[b] <= 1

\* C3: a borrow request naming an existing Available book and an existing
\* borrower answers 201, adds exactly one loan record, for that book and that
\* borrower, and leaves the book's flag false.
C3_EmpruntReussit ==
    [][\A b \in LivreIds, e \in EmprunteurIds :
          ( /\ Handled("create_emprunt", b, e)
            /\ b \in DOMAIN livres
            /\ livres[b].disponible
            /\ e \in DOMAIN emprunteurs )
          => /\ resp'.status = HTTP_201
             /\ resp'.emprunt_id \notin DOMAIN emprunts
             /\ emprunts' = With(emprunts, resp'.emprunt_id,
                                 [livre_id |-> b, emprunteur_id |-> e])
             /\ ~livres'[b].disponible]_vars

C3_Witness ==
    /\ resp.op = "create_emprunt"
    /\ resp.status = HTTP_201
    /\ resp.emprunt_id \in DOMAIN emprunts
    /\ emprunts[resp.emprunt_id] =
           [livre_id |-> resp.livre_id, emprunteur_id |-> resp.emprunteur_id]
    /\ ~livres[resp.livre_id].disponible
    /\ Cardinality(DOMAIN emprunts) = 2

\* C4: once a book has been borrowed and not returned since, every borrow
\* request for it that names an existing borrower is answered 400.
C4_SecondEmpruntRefuse ==
    [][\A b \in LivreIds, e \in EmprunteurIds :
          ( /\ Handled("create_emprunt", b, e)
            /\ e \in DOMAIN emprunteurs
            /\ en_cours[b] > 0 )
          => resp'.status = HTTP_400]_vars

\* C5: delete_livre on a book that a loan record references answers with an
\* error and leaves the book and the loan records in place.
C5_SuppressionLivreRefusee ==
    [][\A b \in LivreIds :
          ( /\ Handled("delete_livre", b, 0)
            /\ b \in DOMAIN livres
            /\ EmpruntsDuLivre(emprunts, b) # {} )
          => /\ resp'.status >= HTTP_400
             /\ livres' = livres
             /\ emprunts' = emprunts]_vars

\* C6: a loan record, once created, is in every later state with the same
\* book and borrower references.
C6_EmpruntsImmuables ==
    [][\A i \in DOMAIN emprunts :
          i \in DOMAIN emprunts' /\ emprunts'[i] = emprunts[i]]_vars

\* C7: over a store whose commit may fail, a borrow request either adds its
\* loan record and sets the book's flag false, both, or changes no table; a
\* failed commit (500) leaves the tables as they were.
C7_EmpruntAtomique ==
    [][\A b \in 0..MaxLivres, e \in 0..MaxEmprunteurs :
          Handled("create_emprunt", b, e)
          => \/ /\ resp'.status = HTTP_201
                /\ emprunts' = With(emprunts, resp'.emprunt_id,
                                    [livre_id |-> b, emprunteur_id |-> e])
                /\ resp'.emprunt_id \notin DOMAIN emprunts
                /\ livres' = [livres EXCEPT ![b].disponible = FALSE]
             \/ /\ resp'.status # HTTP_201
                /\ emprunts' = emprunts
                /\ livres' = livres]_vars

C7_Witness ==
    /\ resp.op = "create_emprunt"
    /\ resp.status = HTTP_500
    /\ livres[resp.livre_id].disponible
    /\ EmpruntsDuLivre(emprunts, resp.livre_id) = {}

\* C8: a return request for an existing book whose flag is true answers 400
\* and changes no table.
C8_RetourLivreDisponibleRefuse ==
    [][\A b \in LivreIds :
          ( /\ Handled("retourner_livre", b, 0)
            /\ b \in DOMAIN livres
            /\ livres[b].disponible )
          => /\ resp'.status = HTTP_400
             /\ UNCHANGED <<livres, emprunteurs, emprunts>>]_vars

C8_Witness ==
    /\ resp.op = "retourner_livre"
    /\ resp.status = HTTP_400
    /\ livres[resp.livre_id].disponible
    /\ EmpruntsDuLivre(emprunts, resp.livre_id) # {}

\* C9: a return request answered 200 found the book's flag false, sets it to
\* true and changes nothing else: the loan records, the borrowers and every
\* other book are as before.
C9_RetourNeChangeQueLeDrapeau ==
    [][\A b \in LivreIds :
          ( /\ Handled("retourner_livre", b, 0)
            /\ resp'.status = HTTP_200 )
          => /\ b \in DOMAIN livres
             /\ ~livres[b].disponible
             /\ livres' = [livres EXCEPT ![b].disponible = TRUE]
             /\ emprunts' = emprunts
             /\ emprunteurs' = emprunteurs]_vars

C9_Witness ==
    /\ resp.op = "retourner_livre"
    /\ resp.status = HTTP_200
    /\ livres[resp.livre_id].disponible
    /\ EmpruntsDuLivre(emprunts, resp.livre_id) # {}
    /\ \E c \in DOMAIN livres : c # resp.livre_id /\ ~livres[c].disponible

C11_EmpruntEchoue ==
    [][\A b \in LivreIds, e \in EmprunteurIds :
          Handled("create_emprunt", b, e)
          => /\ b \notin DOMAIN livres => resp'.status = HTTP_404
             /\ e \notin DOMAIN emprunteurs => resp'.status = HTTP_404
             /\ ( /\ b \in DOMAIN livres
                  /\ e \in DOMAIN emprunteurs
                  /\ ~livres[b].disponible ) => resp'.status = HTTP_400
             /\ ( \/ b \notin DOMAIN livres
                  \/ e \notin DOMAIN emprunteurs
                  \/ ~livres[b].disponible )
                => UNCHANGED <<livres, emprunteurs, emprunts>>]_vars

\* a borrow of a book that is out, by a borrower who is not in the store
C11_Witness ==
    /\ resp.op = "create_emprunt"
    /\ resp.status = HTTP_404
    /\ resp.livre_id \in DOMAIN livres
    /\ ~livres[resp.livre_id].disponible
    /\ resp.emprunteur_id \notin DOMAIN emprunteurs
    /\ Cardinality(DOMAIN emprunts) = 1

\* C12: a create_livre request answered 201 leaves the created book in the
\* store with its flag true and with no loan record referencing its id.
C12_NouveauLivreDisponible ==
    [][\A b \in LivreIds :
          ( /\ Handled("create_livre", b, 0)
            /\ resp'.status = HTTP_201 )
          => /\ b \in DOMAIN livres'
             /\ livres'[b].disponible
             /\ EmpruntsDuLivre(emprunts', b) = {}]_vars

\* C13: with create-borrower requests of several workers interleaved, no two
\* borrowers in the store ever have the same email and no request ends with
\* 500; a request whose email is in the store when the request reads it, or
\* when it inserts, ends with 400 and adds no borrower, so of the requests
\* for one email at most one ends with 201.
C13_EmailsUniques ==
    /\ [](\A i, j \in DOMAIN emprunteurs :
             emprunteurs[i].email = emprunteurs[j].email => i = j)
    /\ [](\A w \in Workers :
             sess[w].pc = "done" => sess[w].status \in {HTTP_201, HTTP_400})
    /\ [][\A w \in Workers :
             ( /\ sess[w].pc # "done"
               /\ sess'[w].pc = "done" )
             => IF get_emprunteur_by_email(emprunteurs, sess'[w].email)
                THEN /\ sess'[w].status = HTTP_400
                     /\ emprunteurs' = emprunteurs
                ELSE /\ sess'[w].status = HTTP_201
                     /\ \E i \in DOMAIN emprunteurs' \ DOMAIN emprunteurs :
                           emprunteurs' = With(emprunteurs, i,
                                               [email |-> sess'[w].email])]_vars

\* both requests read the store before either inserted: one got 201, the
\* other was stopped by the insert and got 400
C13_Witness ==
    /\ sess[1].pc = "done" /\ sess[1].status = HTTP_201
    /\ sess[2].pc = "done" /\ sess[2].status = HTTP_400
    /\ sess[1].email = sess[2].email
    /\ Cardinality({i \in DOMAIN emprunteurs : emprunteurs[i].email = sess[1].email}) = 1

\* the operations that write to the store
WriteOps == {"create_livre", "update_livre", "delete_livre", "create_emprunteur",
             "delete_emprunteur", "create_emprunt", "retourner_livre"}

C15_PageBornee ==
    resp.op \in {"get_livres", "get_emprunteurs", "get_emprunts"}
    => Len(resp.items) <= LimiteParDefaut

\* C16: from any reachable store, for an Available book b and an existing
\* borrower e: a borrow is accepted (201) and leaves the flag false; in the
\* store it leaves, a borrow with the same ids is refused (400) and a return
\* of b is accepted (200) and leaves the flag true; the store after the return
\* is the starting store with one more loan record, and a borrow of b is
\* accepted there again. Every borrow and return step the API takes is one of
\* these three cases and changes exactly what the case says.
C16_AllerRetour ==
    /\ [](\A b \in DOMAIN livres, e \in DOMAIN emprunteurs :
             livres[b].disponible =>
               LET s1 == create_emprunt_stage(Store, b, e)
                   s2 == retourner_livre_stage(s1, b)
               IN /\ create_emprunt_status(livres, emprunteurs, b, e) = HTTP_201
                  /\ ~s1.livres[b].disponible
                  /\ create_emprunt_status(s1.livres, s1.emprunteurs, b, e) = HTTP_400
                  /\ retourner_livre_status(s1.livres, b) = HTTP_200
                  /\ s2.livres[b].disponible
                  /\ s2 = [Store EXCEPT !.emprunts =
                              With(@, NextId(DOMAIN @),
                                   [livre_id |-> b, emprunteur_id |-> e])]
                  /\ create_emprunt_status(s2.livres, s2.emprunteurs, b, e) = HTTP_201)
    /\ [][\A b \in DOMAIN livres, e \in DOMAIN emprunteurs :
             /\ Handled("create_emprunt", b, e) =>
                  IF livres[b].disponible
                  THEN /\ resp'.status = HTTP_201
                       /\ Install(create_emprunt_stage(Store, b, e))
                  ELSE /\ resp'.status = HTTP_400
                       /\ UNCHANGED <<livres, emprunteurs, emprunts>>
             /\ ( Handled("retourner_livre", b, 0) /\ ~livres[b].disponible ) =>
                  /\ resp'.status = HTTP_200
                  /\ livres' = [livres EXCEPT ![b].disponible = TRUE]
                  /\ UNCHANGED <<emprunteurs, emprunts>>]_vars

\* the book has been borrowed, returned and is borrowed again
C16_Witness ==
    /\ resp.op = "create_emprunt"
    /\ resp.status = HTTP_201
    /\ Cardinality(EmpruntsDuLivre(emprunts, resp.livre_id)) = 2
    /\ en_cours[resp.livre_id] = 1
    /\ ~livres[resp.livre_id].disponible

\* C17: a return, an update (with a body that passes validation), a delete of
\* a book, each naming a book id that is not in the store, and a delete of a
\* borrower naming a borrower id that is not in the store, are answered 404
\* and leave the three tables unchanged.
C17_IdInconnu ==
    /\ [](\A b \in LivreIds \ DOMAIN livres, d \in LivreUpdates({MinAnnee, MaxAnnee}) :
             LivreUpdateValide(d) /\ update_livre_status(livres, b, d) = HTTP_404)
    /\ [][\A b \in LivreIds \ DOMAIN livres :
             /\ Handled("retourner_livre", b, 0) => resp'.status = HTTP_404
             /\ Handled("delete_livre", b, 0) => resp'.status = HTTP_404
             /\ Handled("update_livre", b, 0) => resp'.status \in {HTTP_404, HTTP_422}
             /\ ( /\ resp = NoResponse
                  /\ resp'.op \in {"retourner_livre", "delete_livre", "update_livre"}
                  /\ resp'.livre_id = b )
                => UNCHANGED <<livres, emprunteurs, emprunts>>]_vars
    /\ [][\A e \in EmprunteurIds \ DOMAIN emprunteurs :
             Handled("delete_emprunteur", 0, e)
             => /\ resp'.status = HTTP_404
                /\ UNCHANGED <<livres, emprunteurs, emprunts>>]_vars

\* a delete naming a book id that is not in the store, while another book is on
\* loan
C17_Witness ==
    /\ resp.op = "delete_livre"
    /\ resp.status = HTTP_404
    /\ resp.livre_id \notin DOMAIN livres
    /\ \E c \in DOMAIN livres : ~livres[c].disponible
    /\ emprunts # <<>>

\* C18: for every book, successful borrows and successful returns alternate,
\* starting with a borrow: a borrow of the book is accepted only when no
\* accepted borrow of it has happened since its last accepted return, and a
\* return is accepted only when exactly one has.
C18_AlternanceEmpruntRetour ==
    [][\A b \in LivreIds :
          ( /\ resp = NoResponse
            /\ resp'.livre_id = b )
          => /\ ( resp'.op = "create_emprunt" /\ resp'.status = HTTP_201 )
                => en_cours[b] = 0
             /\ ( resp'.op = "retourner_livre" /\ resp'.status = HTTP_200 )
                => en_cours[b] = 1]_vars

\* C19: the flag of a book that stays in the store changes only in a step
\* that is an accepted borrow of that book (true to false) or an accepted
\* return of it (false to true).
C19_DrapeauChangeParEmpruntOuRetour ==
    [][\A b \in DOMAIN livres \cap DOMAIN livres' :
          livres'[b].disponible # livres[b].disponible
          => /\ resp = NoResponse
             /\ resp'.livre_id = b
             /\ \/ /\ resp'.op = "create_emprunt"
                   /\ resp'.status = HTTP_201
                   /\ livres[b].disponible
                \/ /\ resp'.op = "retourner_livre"
                   /\ resp'.status = HTTP_200
                   /\ ~livres[b].disponible]_vars

\* C20: in every reachable state every loan record references a book that is
\* in the store and a borrower that is in the store.
C20_IntegriteReferentielle ==
    \A i \in DOMAIN emprunts :
        /\ emprunts[i].livre_id \in DOMAIN livres
        /\ emprunts[i].emprunteur_id \in DOMAIN emprunteurs

\* C21: with borrow requests and delete-borrower requests of several workers
\* interleaved, no loan record ever references a borrower that is not in the
\* store.
C21_PasDEmpruntSansEmprunteur ==
    \A i \in DOMAIN emprunts : emprunts[i].emprunteur_id \in DOMAIN emprunteurs

\* C22: the answer to a borrow request naming an existing book and an existing
\* borrower is decided by the book's flag alone: 201 when it is true, also
\* when loan records of the book exist, and 400 when it is false, also when
\* the book has no loan record.
C22_EmpruntSelonLeDrapeau ==
    [][\A b \in DOMAIN livres, e \in DOMAIN emprunteurs :
          Handled("create_emprunt", b, e)
          => resp'.status = IF livres[b].disponible THEN HTTP_201 ELSE HTTP_400]_vars

\* a borrow refused for a book that has its flag false and no loan record
C22_Witness ==
    /\ resp.op = "create_emprunt"
    /\ resp.status = HTTP_400
    /\ resp.emprunteur_id \in DOMAIN emprunteurs
    /\ resp.livre_id \in DOMAIN livres
    /\ EmpruntsDuLivre(emprunts, resp.livre_id) = {}

\* C23: a borrow request naming a book that is not in the store is answered
\* 404 whatever borrower id it carries, and a request naming a book in the
\* store with flag false and a borrower that is not in the store is answered
\* 404, not 400.
C23_OrdreDesVerifications ==
    [][\A b \in LivreIds, e \in EmprunteurIds :
          Handled("create_emprunt", b, e)
          => /\ b \notin DOMAIN livres => resp'.status = HTTP_404
             /\ ( /\ b \in DOMAIN livres
                  /\ ~livres[b].disponible
                  /\ e \notin DOMAIN emprunteurs ) => resp'.status = HTTP_404]_vars

\* the book is out and the borrower named is not in the store, while another
\* borrower is
C23_Witness ==
    /\ resp.op = "create_emprunt"
    /\ resp.status = HTTP_404
    /\ resp.livre_id \in DOMAIN livres
    /\ ~livres[resp.livre_id].disponible
    /\ resp.emprunteur_id \notin DOMAIN emprunteurs
    /\ DOMAIN emprunteurs # {}
    /\ EmpruntsDuLivre(emprunts, resp.livre_id) # {}

\* C24: a return request for a book in the store whose flag is false is
\* answered 200 and leaves the flag true; and when responses are sent and
\* return requests handled fairly, every book whose flag is false is later
\* Available (or no longer in the store).
C24_RetourToujoursPossible ==
    /\ [][\A b \in DOMAIN livres :
             ( Handled("retourner_livre", b, 0) /\ ~livres[b].disponible )
             => /\ resp'.status = HTTP_200
                /\ b \in DOMAIN livres'
                /\ livres'[b].disponible]_vars
    /\ \A b \in LivreIds :
          ( b \in DOMAIN livres /\ ~livres[b].disponible )
          ~> ( b \notin DOMAIN livres \/ livres[b].disponible )

\* the book was out, has been given back, and every book is Available
C24_Witness ==
    /\ resp.op = "retourner_livre"
    /\ resp.status = HTTP_200
    /\ Cardinality(EmpruntsDuLivre(emprunts, resp.livre_id)) = 1
    /\ en_cours[resp.livre_id] = 0
    /\ \A c \in DOMAIN livres : livres[c].disponible

\* C25: a borrow request answered 201 leaves every other book as it was, the
\* named book as it was except for its flag, the borrowers as they were, and
\* every loan record that existed before in place and unchanged.
C25_EmpruntNeChangeRienDAutre ==
    [][\A b \in LivreIds, e \in EmprunteurIds :
          ( /\ Handled("create_emprunt", b, e)
            /\ resp'.status = HTTP_201 )
          => /\ DOMAIN livres' = DOMAIN livres
             /\ \A c \in DOMAIN livres \ {b} : livres'[c] = livres[c]
             /\ livres'[b].annee_publication = livres[b].annee_publication
             /\ emprunteurs' = emprunteurs
             /\ \A i \in DOMAIN emprunts :
                   i \in DOMAIN emprunts' /\ emprunts'[i] = emprunts[i]]_vars

\* a borrow accepted while another book is Available and an earlier loan
\* record, of another borrower, exists
C25_Witness ==
    /\ resp.op = "create_emprunt"
    /\ resp.status = HTTP_201
    /\ \E c \in DOMAIN livres : c # resp.livre_id /\ livres[c].disponible
    /\ \E i \in DOMAIN emprunts :
          /\ i # resp.emprunt_id
          /\ emprunts[i].emprunteur_id # resp.emprunteur_id

\* C26: every book in the store has a publication year in 1000..2024; a
\* borrow request is answered 422 exactly when its book id or its borrower id
\* is not greater than 0; and a request answered 422 changes no table.
C26_ValeursValidees ==
    /\ [](\A b \in DOMAIN livres :
             /\ livres[b].annee_publication >= 1000
             /\ livres[b].annee_publication <= 2024)
    /\ [][\A b \in (-1)..MaxLivres, e \in (-1)..MaxEmprunteurs :
             Handled("create_emprunt", b, e)
             => ( resp'.status = HTTP_422 <=> ~(b > 0 /\ e > 0) )]_vars
    /\ [][( resp = NoResponse /\ resp'.status = HTTP_422 )
          => UNCHANGED <<livres, emprunteurs, emprunts>>]_vars

\* an update was refused by validation; the store holds a book of year 1000
\* and a book of year 2024
C26_Witness ==
    /\ resp.op = "update_livre"
    /\ resp.status = HTTP_422
    /\ \E b, c \in DOMAIN livres :
          /\ livres[b].annee_publication = MinAnnee
          /\ livres[c].annee_publication = MaxAnnee
    /\ emprunts # <<>>

\* C27: a run of init_db leaves in table livres exactly the seed books, all
\* Available; it leaves the borrowers as they were when there was one, and
\* the seed borrowers when there was none; and a second run right after the
\* first leaves as many books and as many borrowers as the first.
C27_InitDb ==
    /\ [][( resp = NoResponse /\ resp' = NoResponse )
          => /\ DOMAIN livres' = 1..MaxLivresTest
             /\ \A b \in DOMAIN livres' :
                   livres'[b] = [annee_publication |-> AnneeTest, disponible |-> TRUE]
             /\ emprunteurs' =
                   IF DOMAIN emprunteurs # {} THEN emprunteurs
                   ELSE [i \in 1..Len(EmprunteursTest) |->
                            [email |-> EmprunteursTest[i]]]]_vars
    /\ [](LET une == init_db_stage(Store)
              deux == init_db_stage(une)
          IN /\ Cardinality(DOMAIN deux.livres) = Cardinality(DOMAIN une.livres)
             /\ Cardinality(DOMAIN deux.emprunteurs) =
                   Cardinality(DOMAIN une.emprunteurs))

\* init_db has run on a store that had another book, on loan, and one
\* borrower: the seed book is the only book and the borrower is the only one
C27_Witness ==
    /\ resp = NoResponse
    /\ DOMAIN livres = 1..MaxLivresTest
    /\ \A b \in DOMAIN livres : livres[b].disponible
    /\ \E i \in DOMAIN emprunts : emprunts[i].livre_id \notin DOMAIN livres
    /\ Cardinality(DOMAIN emprunteurs) = 1

====
